---- MODULE Spec2Model ----
(***************************************************************************)
(* Model of the MicroPython sdl2 module (src/src/sdl2.c): the SDL2 object  *)
(* (sdl2_obj_t), its constructor sdl2_make_new, sdl2_show (RGB565 blit)    *)
(* and sdl2_poll_event (event tuples).  The SDL library is the backend:    *)
(* its renderer calls are recorded in `calls`, its event queue is `queue`. *)
(***************************************************************************)
EXTENDS Integers, Sequences, FiniteSets, TLC

VARIABLES
    self,       \* the sdl2_obj_t made by sdl2_make_new, or NoObj
    queue,      \* SDL's event queue: raw SDL_Event values, head first
    last,       \* the last call into the module: its name, argument and outcome
    calls,      \* renderer calls issued by the last call into the module, in order
    produced,   \* every event the host has queued so far, in order
    delivered,  \* every tuple poll_event has returned so far, in order
    inited,     \* TRUE while SDL is initialised (SDL_Init done, no SDL_Quit since)
    color,      \* a uint16_t pixel handed to the pixel decoder
    rgb         \* the decoder's output for `color`, or NoRGB

vars == <<self, queue, last, calls, produced, delivered, inited, color, rgb>>

(***************************************************************************)
(* Bounds of the model.                                                    *)
(***************************************************************************)
MaxDim == 2         \* width and height range over 1..MaxDim
MaxScale == 2       \* x_scale and y_scale range over 1..MaxScale
MaxEvents == 2      \* the host queues at most this many events in a run

(***************************************************************************)
(* SDL event type codes used by the code.                                  *)
(***************************************************************************)
SDL_QUIT == 256
SDL_WINDOWEVENT == 512
SDL_KEYDOWN == 768
SDL_KEYUP == 769
SDL_MOUSEMOTION == 1024
SDL_MOUSEBUTTONDOWN == 1025
SDL_MOUSEBUTTONUP == 1026
SDL_MOUSEWHEEL == 1027

NoObj == [t |-> "noobj"]
NoRGB == [t |-> "norgb"]

(***************************************************************************)
(* MicroPython objects.                                                    *)
(***************************************************************************)
mp_obj_new_int(n) == [t |-> "int", v |-> n]
mp_obj_new_str(s) == [t |-> "str", s |-> s]
mp_obj_new_tuple(items) == [t |-> "tuple", items |-> items]
mp_const_none == [t |-> "none"]
\* a zero-initialised mp_obj_t slot
MP_OBJ_NULL == [t |-> "null"]

(***************************************************************************)
(* C integer division: the quotient truncated toward zero.  Division by    *)
(* zero is undefined: the divide either traps (see sdl2_poll_event) or     *)
(* leaves 0, which is the value given here.                                *)
(***************************************************************************)
Abs(n) == IF n < 0 THEN -n ELSE n

\* variant: the quotient rounded toward minus infinity
CDiv_Floor(a, b) == a \div b

CDiv(a, b) ==
    IF b = 0 THEN 0
    ELSE IF (a < 0) = (b < 0) THEN Abs(a) \div Abs(b) ELSE -(Abs(a) \div Abs(b))

(***************************************************************************)
(* Pixel decoder: RGB565 to three 8-bit channels.                          *)
(***************************************************************************)
\* variant: widen each channel by bit replication instead of rescaling
Decode_BitReplicate(c) ==
    [r |-> (c \div 2048) * 8 + (c \div 2048) \div 4,
     g |-> ((c \div 32) % 64) * 4 + ((c \div 32) % 64) \div 16,
     b |-> (c % 32) * 8 + (c % 32) \div 4]

Decode(c) ==
    [r |-> CDiv((c \div 2048) * 255, 31),
     g |-> CDiv(((c \div 32) % 64) * 255, 63),
     b |-> CDiv((c % 32) * 255, 31)]

(***************************************************************************)
(* sdl2_show: the renderer calls of one frame.                             *)
(***************************************************************************)
SetRenderDrawColor(r, g, b, a) ==
    [fn |-> "SDL_SetRenderDrawColor", r |-> r, g |-> g, b |-> b, a |-> a]
RenderDrawPoint(x, y) == [fn |-> "SDL_RenderDrawPoint", x |-> x, y |-> y]
RenderFillRect(x, y, w, h) ==
    [fn |-> "SDL_RenderFillRect", x |-> x, y |-> y, w |-> w, h |-> h]
RenderPresent == [fn |-> "SDL_RenderPresent"]

\* variant: the rectangle's row is scaled by x_scale
PixelCalls_RowByXScale(s, x, y, c) ==
    LET d == Decode(c) IN
    <<SetRenderDrawColor(d.r, d.g, d.b, 255),
      IF s.x_scale = 1 /\ s.y_scale = 1
      THEN RenderDrawPoint(x, y)
      ELSE RenderFillRect(x * s.x_scale, y * s.x_scale, s.x_scale, s.y_scale)>>

\* the body of the inner loop for pixel (x, y) holding `c`
PixelCalls(s, x, y, c) ==
    LET d == Decode(c) IN
    <<SetRenderDrawColor(d.r, d.g, d.b, 255),
      IF s.x_scale = 1 /\ s.y_scale = 1
      THEN RenderDrawPoint(x, y)
      ELSE RenderFillRect(x * s.x_scale, y * s.y_scale, s.x_scale, s.y_scale)>>

\* variant: the loops nested the other way round (x outer, y inner)
RECURSIVE ShowLoop_ColumnMajor(_, _, _, _, _)
ShowLoop_ColumnMajor(s, buffer, y, x, i) ==
    IF x >= s.width THEN <<>>
    ELSE IF y >= s.height THEN ShowLoop_ColumnMajor(s, buffer, 0, x + 1, i)
    ELSE PixelCalls(s, x, y, buffer[i + 1])
            \o ShowLoop_ColumnMajor(s, buffer, y + 1, x, i + 1)

\* the two nested loops, from position (x, y) with buffer index i
RECURSIVE ShowLoop(_, _, _, _, _)
ShowLoop(s, buffer, y, x, i) ==
    IF y >= s.height THEN <<>>
    ELSE IF x >= s.width THEN ShowLoop(s, buffer, y + 1, 0, i)
    ELSE PixelCalls(s, x, y, buffer[i + 1]) \o ShowLoop(s, buffer, y, x + 1, i + 1)

\* variant: the size test only rejects buffers that are too short
SizeMismatch_ShortOnly(s, len) == len < s.width * s.height * 2

\* the size test of sdl2_show; the product is computed in unsigned int, which
\* is exact while width * height * 2 stays below 2^32, as it does here
SizeMismatch(s, len) == len # s.width * s.height * 2

(***************************************************************************)
(* The buffers handed to show: a byte length and the uint16_t values the   *)
(* bytes hold; `null` is a buffer whose data pointer is NULL.              *)
(***************************************************************************)
Palette == <<63488, 31, 2016, 65535, 0, 33808>>

MaxBytes == 2 * MaxDim * MaxDim + 1

\* a buffer of `len` bytes whose values run through the palette from `first`
BufInfo(len, first) ==
    [null |-> FALSE, len |-> len,
     data |-> [i \in 1..(len \div 2) |->
                 Palette[((first + i - 1) % Len(Palette)) + 1]]]

NullBuf == [null |-> TRUE, len |-> 0, data |-> <<>>]

Buffers ==
    {NullBuf} \cup {BufInfo(len, first) : len \in 0..MaxBytes, first \in 0..2}

NoArg == [t |-> "noarg"]

(***************************************************************************)
(* The events the host puts on SDL's queue (SDL_Event, by member).         *)
(***************************************************************************)
KeyboardEvent(type, sym, mod) == [type |-> type, sym |-> sym, mod |-> mod]
MouseMotionEvent(x, y, xrel, yrel, state) ==
    [type |-> SDL_MOUSEMOTION, x |-> x, y |-> y, xrel |-> xrel, yrel |-> yrel,
     state |-> state]
MouseButtonEvent(type, x, y, button) ==
    [type |-> type, x |-> x, y |-> y, button |-> button]
MouseWheelEvent(x, y, direction, preciseX, preciseY, mouseX, mouseY) ==
    [type |-> SDL_MOUSEWHEEL, x |-> x, y |-> y, direction |-> direction,
     preciseX |-> preciseX, preciseY |-> preciseY,
     mouseX |-> mouseX, mouseY |-> mouseY]
CommonEvent(type) == [type |-> type]

\* the events of the full system: one of each shape
HostEvents ==
    {KeyboardEvent(SDL_KEYDOWN, 97, 1),
     MouseMotionEvent(7, 5, -3, -5, 1),
     MouseWheelEvent(3, -5, 0, 3, -5, 7, 5),
     CommonEvent(SDL_QUIT)}

\* the events poll_event is tried on one by one: every kind, with a range of
\* coordinates, negative relative motion and scroll amounts included
Coords == {0, 5, 7, 10}
Rels == {-5, -3, 0, 4}

RawEvents ==
    {KeyboardEvent(type, sym, mod) :
        type \in {SDL_KEYDOWN, SDL_KEYUP}, sym \in {0, 97}, mod \in {0, 1, 4096}}
    \cup {MouseMotionEvent(x, y, xrel, yrel, state) :
        x \in Coords, y \in Coords, xrel \in Rels, yrel \in Rels, state \in {0, 1}}
    \cup {MouseButtonEvent(type, x, y, button) :
        type \in {SDL_MOUSEBUTTONDOWN, SDL_MOUSEBUTTONUP},
        x \in Coords, y \in Coords, button \in {1, 3}}
    \cup {MouseWheelEvent(x, y, direction, preciseX, 2, 7, mouseY) :
        x \in Rels, y \in Rels, direction \in {0, 1}, preciseX \in {-1, 2},
        mouseY \in {5, 10}}
    \cup {CommonEvent(type) : type \in {SDL_QUIT, SDL_WINDOWEVENT}}

\* SDL_GetKeyName: the name of a key code, "" when it has none
SDL_GetKeyName(sym) == IF sym = 97 THEN "A" ELSE ""

(***************************************************************************)
(* sdl2_poll_event: the tuple built for one event.                         *)
(***************************************************************************)
\* variant: the wheel's vertical amount is divided by y_scale
PollRecord_WheelYByYScale(s, event) ==
    CASE event.type \in {SDL_KEYDOWN, SDL_KEYUP} ->
           mp_obj_new_tuple(<<mp_obj_new_int(event.type),
                              mp_obj_new_str(SDL_GetKeyName(event.sym)),
                              mp_obj_new_int(event.mod)>>)
      [] event.type = SDL_MOUSEMOTION ->
           mp_obj_new_tuple(<<mp_obj_new_int(event.type),
                              mp_obj_new_int(CDiv(event.x, s.x_scale)),
                              mp_obj_new_int(CDiv(event.y, s.y_scale)),
                              mp_obj_new_int(CDiv(event.xrel, s.x_scale)),
                              mp_obj_new_int(CDiv(event.yrel, s.y_scale)),
                              mp_obj_new_int(event.state)>>)
      [] event.type \in {SDL_MOUSEBUTTONDOWN, SDL_MOUSEBUTTONUP} ->
           mp_obj_new_tuple(<<mp_obj_new_int(event.type),
                              mp_obj_new_int(CDiv(event.x, s.x_scale)),
                              mp_obj_new_int(CDiv(event.y, s.y_scale)),
                              mp_obj_new_int(event.button)>>)
      [] event.type = SDL_MOUSEWHEEL ->
           mp_obj_new_tuple(<<mp_obj_new_int(event.type),
                              mp_obj_new_int(CDiv(event.x, s.x_scale)),
                              mp_obj_new_int(CDiv(event.y, s.y_scale)),
                              mp_obj_new_int(event.direction),
                              MP_OBJ_NULL, MP_OBJ_NULL, MP_OBJ_NULL, MP_OBJ_NULL>>)
      [] OTHER ->
           mp_obj_new_tuple(<<mp_obj_new_int(event.type)>>)

\* variant: the wheel tuple is built with the four initialised slots only
PollRecord_WheelFour(s, event) ==
    CASE event.type \in {SDL_KEYDOWN, SDL_KEYUP} ->
           mp_obj_new_tuple(<<mp_obj_new_int(event.type),
                              mp_obj_new_str(SDL_GetKeyName(event.sym)),
                              mp_obj_new_int(event.mod)>>)
      [] event.type = SDL_MOUSEMOTION ->
           mp_obj_new_tuple(<<mp_obj_new_int(event.type),
                              mp_obj_new_int(CDiv(event.x, s.x_scale)),
                              mp_obj_new_int(CDiv(event.y, s.y_scale)),
                              mp_obj_new_int(CDiv(event.xrel, s.x_scale)),
                              mp_obj_new_int(CDiv(event.yrel, s.y_scale)),
                              mp_obj_new_int(event.state)>>)
      [] event.type \in {SDL_MOUSEBUTTONDOWN, SDL_MOUSEBUTTONUP} ->
           mp_obj_new_tuple(<<mp_obj_new_int(event.type),
                              mp_obj_new_int(CDiv(event.x, s.x_scale)),
                              mp_obj_new_int(CDiv(event.y, s.y_scale)),
                              mp_obj_new_int(event.button)>>)
      [] event.type = SDL_MOUSEWHEEL ->
           mp_obj_new_tuple(<<mp_obj_new_int(event.type),
                              mp_obj_new_int(CDiv(event.x, s.x_scale)),
                              mp_obj_new_int(CDiv(event.y, s.x_scale)),
                              mp_obj_new_int(event.direction)>>)
      [] OTHER ->
           mp_obj_new_tuple(<<mp_obj_new_int(event.type)>>)

PollRecord(s, event) ==
    CASE event.type \in {SDL_KEYDOWN, SDL_KEYUP} ->
           mp_obj_new_tuple(<<mp_obj_new_int(event.type),
                              mp_obj_new_str(SDL_GetKeyName(event.sym)),
                              mp_obj_new_int(event.mod)>>)
      [] event.type = SDL_MOUSEMOTION ->
           mp_obj_new_tuple(<<mp_obj_new_int(event.type),
                              mp_obj_new_int(CDiv(event.x, s.x_scale)),
                              mp_obj_new_int(CDiv(event.y, s.y_scale)),
                              mp_obj_new_int(CDiv(event.xrel, s.x_scale)),
                              mp_obj_new_int(CDiv(event.yrel, s.y_scale)),
                              mp_obj_new_int(event.state)>>)
      [] event.type \in {SDL_MOUSEBUTTONDOWN, SDL_MOUSEBUTTONUP} ->
           mp_obj_new_tuple(<<mp_obj_new_int(event.type),
                              mp_obj_new_int(CDiv(event.x, s.x_scale)),
                              mp_obj_new_int(CDiv(event.y, s.y_scale)),
                              mp_obj_new_int(event.button)>>)
      [] event.type = SDL_MOUSEWHEEL ->
           mp_obj_new_tuple(<<mp_obj_new_int(event.type),
                              mp_obj_new_int(CDiv(event.x, s.x_scale)),
                              mp_obj_new_int(CDiv(event.y, s.x_scale)),
                              mp_obj_new_int(event.direction),
                              MP_OBJ_NULL, MP_OBJ_NULL, MP_OBJ_NULL, MP_OBJ_NULL>>)
      [] OTHER ->
           mp_obj_new_tuple(<<mp_obj_new_int(event.type)>>)

(***************************************************************************)
(* State after the module is imported: no object, nothing queued.          *)
(***************************************************************************)
NoCall == [op |-> "none", exc |-> "none", msg |-> "", val |-> mp_const_none,
           arg |-> NoArg, failAt |-> 0]

Init ==
    /\ self = NoObj
    /\ queue = <<>>
    /\ last = NoCall
    /\ calls = <<>>
    /\ produced = <<>>
    /\ delivered = <<>>
    /\ inited = FALSE
    /\ color = 0
    /\ rgb = NoRGB

(***************************************************************************)
(* sdl2_make_new: store the arguments, start SDL, open window and renderer.*)
(* `fail` names the SDL call that fails, if any.                           *)
(***************************************************************************)
MakeNewFailures == {"none", "SDL_Init", "SDL_CreateWindow", "SDL_CreateRenderer"}

sdl2_make_new(width, height, x_scale, y_scale, fail) ==
    /\ self = NoObj
    /\ self' = IF fail = "none"
               THEN [width |-> width, height |-> height,
                     x_scale |-> x_scale, y_scale |-> y_scale,
                     win |-> [w |-> width * x_scale, h |-> height * y_scale]]
               ELSE NoObj
    /\ last' = [op |-> "make_new",
                exc |-> IF fail = "none" THEN "none" ELSE "RuntimeError",
                msg |-> IF fail = "none" THEN "" ELSE fail,
                val |-> mp_const_none, arg |-> NoArg, failAt |-> 0]
    /\ calls' = <<>>
    /\ inited' = (inited \/ fail # "SDL_Init")
    /\ UNCHANGED <<queue, produced, delivered, color, rgb>>

(***************************************************************************)
(* sdl2_show.  failAt = 0: every renderer call succeeds; failAt = k: the   *)
(* k-th renderer call of the frame fails (the present comes last).         *)
(* After SDL_Quit the renderer behind self->renderer is destroyed and its  *)
(* use is undefined: the calls may go on as on a live renderer (any        *)
(* failAt >= 0) or the process dies in the first of them (failAt = -1).    *)
(***************************************************************************)
\* variant: the return codes of the renderer calls are not looked at
sdl2_show_IgnoresFailure(bufinfo, failAt) ==
    /\ self # NoObj
    /\ LET all == ShowLoop(self, bufinfo.data, 0, 0, 0) IN
       IF bufinfo.null
       THEN /\ failAt = 0
            /\ calls' = <<>>
            /\ last' = [op |-> "show", exc |-> "ValueError", msg |-> "no buffer",
                        val |-> mp_const_none, arg |-> bufinfo, failAt |-> 0]
       ELSE IF SizeMismatch(self, bufinfo.len)
       THEN /\ failAt = 0
            /\ calls' = <<>>
            /\ last' = [op |-> "show", exc |-> "ValueError",
                        msg |-> "buffer size mismatch",
                        val |-> mp_const_none, arg |-> bufinfo, failAt |-> 0]
       ELSE IF failAt = -1
       THEN /\ ~inited
            /\ calls' = <<all[1]>>
            /\ last' = [op |-> "show", exc |-> "crash", msg |-> all[1].fn,
                        val |-> mp_const_none, arg |-> bufinfo, failAt |-> -1]
       ELSE /\ failAt \in 0..(Len(all) + 1)
            /\ IF FALSE
               THEN FALSE
               ELSE /\ calls' = Append(all, RenderPresent)
                    /\ last' = [op |-> "show", exc |-> "none", msg |-> "",
                                val |-> mp_const_none, arg |-> bufinfo,
                                failAt |-> failAt]
    /\ UNCHANGED <<self, queue, produced, delivered, inited, color, rgb>>

sdl2_show(bufinfo, failAt) ==
    /\ self # NoObj
    /\ LET all == ShowLoop(self, bufinfo.data, 0, 0, 0) IN
       IF bufinfo.null
       THEN /\ failAt = 0
            /\ calls' = <<>>
            /\ last' = [op |-> "show", exc |-> "ValueError", msg |-> "no buffer",
                        val |-> mp_const_none, arg |-> bufinfo, failAt |-> 0]
       ELSE IF SizeMismatch(self, bufinfo.len)
       THEN /\ failAt = 0
            /\ calls' = <<>>
            /\ last' = [op |-> "show", exc |-> "ValueError",
                        msg |-> "buffer size mismatch",
                        val |-> mp_const_none, arg |-> bufinfo, failAt |-> 0]
       ELSE IF failAt = -1
       THEN /\ ~inited
            /\ calls' = <<all[1]>>
            /\ last' = [op |-> "show", exc |-> "crash", msg |-> all[1].fn,
                        val |-> mp_const_none, arg |-> bufinfo, failAt |-> -1]
       ELSE /\ failAt \in 0..(Len(all) + 1)
            /\ IF failAt \in 1..Len(all)
               THEN /\ calls' = SubSeq(all, 1, failAt)
                    /\ last' = [op |-> "show", exc |-> "RuntimeError",
                                msg |-> all[failAt].fn,
                                val |-> mp_const_none, arg |-> bufinfo,
                                failAt |-> failAt]
               ELSE /\ calls' = Append(all, RenderPresent)
                    /\ last' = [op |-> "show", exc |-> "none", msg |-> "",
                                val |-> mp_const_none, arg |-> bufinfo,
                                failAt |-> failAt]
    /\ UNCHANGED <<self, queue, produced, delivered, inited, color, rgb>>

(***************************************************************************)
(* The host (window system, user) puts an event on SDL's queue, which      *)
(* exists while SDL is initialised.                                        *)
(***************************************************************************)
HostEvent(event) ==
    /\ inited
    /\ Len(produced) < MaxEvents
    /\ queue' = Append(queue, event)
    /\ produced' = Append(produced, event)
    /\ UNCHANGED <<self, last, calls, delivered, inited, color, rgb>>

(***************************************************************************)
(* sdl2_poll_event: SDL_PollEvent takes the head of the queue if there is  *)
(* one; the handler returns its tuple, or None.                            *)
(***************************************************************************)
\* variant: an empty queue is answered with an empty tuple
sdl2_poll_event_EmptyTuple ==
    /\ self # NoObj
    /\ IF queue # <<>>
       THEN /\ queue' = Tail(queue)
            /\ last' = [op |-> "poll_event", exc |-> "none", msg |-> "",
                        val |-> PollRecord(self, Head(queue)),
                        arg |-> Head(queue), failAt |-> 0]
            /\ delivered' = Append(delivered, PollRecord(self, Head(queue)))
       ELSE /\ queue' = queue
            /\ last' = [op |-> "poll_event", exc |-> "none", msg |-> "",
                        val |-> mp_obj_new_tuple(<<>>), arg |-> NoArg, failAt |-> 0]
            /\ delivered' = delivered
    /\ calls' = <<>>
    /\ UNCHANGED <<self, produced, inited, color, rgb>>

\* variant: the newest event is taken instead of the oldest
sdl2_poll_event_TakesNewest ==
    /\ self # NoObj
    /\ IF queue # <<>>
       THEN /\ queue' = SubSeq(queue, 1, Len(queue) - 1)
            /\ last' = [op |-> "poll_event", exc |-> "none", msg |-> "",
                        val |-> PollRecord(self, queue[Len(queue)]),
                        arg |-> queue[Len(queue)], failAt |-> 0]
            /\ delivered' = Append(delivered, PollRecord(self, queue[Len(queue)]))
       ELSE /\ queue' = queue
            /\ last' = [op |-> "poll_event", exc |-> "none", msg |-> "",
                        val |-> mp_const_none, arg |-> NoArg, failAt |-> 0]
            /\ delivered' = delivered
    /\ calls' = <<>>
    /\ UNCHANGED <<self, produced, inited, color, rgb>>

\* the tuple of this event needs a quotient by a scale that is 0
DividesByZero(s, event) ==
    \/ /\ event.type \in {SDL_MOUSEMOTION, SDL_MOUSEBUTTONDOWN, SDL_MOUSEBUTTONUP}
       /\ (s.x_scale = 0 \/ s.y_scale = 0)
    \/ /\ event.type = SDL_MOUSEWHEEL
       /\ s.x_scale = 0

sdl2_poll_event ==
    /\ self # NoObj
    /\ IF queue # <<>>
       THEN /\ queue' = Tail(queue)
            /\ \/ /\ last' = [op |-> "poll_event", exc |-> "none", msg |-> "",
                               val |-> PollRecord(self, Head(queue)),
                               arg |-> Head(queue), failAt |-> 0]
                  /\ delivered' = Append(delivered, PollRecord(self, Head(queue)))
               \/ /\ DividesByZero(self, Head(queue))
                  /\ last' = [op |-> "poll_event", exc |-> "crash",
                              msg |-> "division by zero", val |-> mp_const_none,
                              arg |-> Head(queue), failAt |-> 0]
                  /\ delivered' = delivered
       ELSE /\ queue' = queue
            /\ last' = [op |-> "poll_event", exc |-> "none", msg |-> "",
                        val |-> mp_const_none, arg |-> NoArg, failAt |-> 0]
            /\ delivered' = delivered
    /\ calls' = <<>>
    /\ UNCHANGED <<self, produced, inited, color, rgb>>

(***************************************************************************)
(* sdl2_deinit: SDL_Quit, whatever the state; its argument is not used.    *)
(* SDL_Quit shuts every subsystem down, destroys the windows and drops the *)
(* queued events; it does nothing when SDL is not initialised.             *)
(***************************************************************************)
\* variant: deinit refuses to run when SDL is not initialised
sdl2_deinit_ChecksState ==
    /\ inited' = FALSE
    /\ queue' = <<>>
    /\ last' = [op |-> "deinit",
                exc |-> IF inited THEN "none" ELSE "RuntimeError",
                msg |-> IF inited THEN "" ELSE "SDL_Quit",
                val |-> mp_const_none,
                arg |-> [was |-> inited, after |-> last.op], failAt |-> 0]
    /\ calls' = <<>>
    /\ UNCHANGED <<self, produced, delivered, color, rgb>>

sdl2_deinit ==
    /\ inited' = FALSE
    /\ queue' = <<>>
    /\ last' = [op |-> "deinit", exc |-> "none", msg |-> "",
                val |-> mp_const_none,
                arg |-> [was |-> inited, after |-> last.op], failAt |-> 0]
    /\ calls' = <<>>
    /\ UNCHANGED <<self, produced, delivered, color, rgb>>

MakeNew ==
    \E width \in 1..MaxDim, height \in 1..MaxDim,
       x_scale \in 1..MaxScale, y_scale \in 1..MaxScale, fail \in MakeNewFailures :
        sdl2_make_new(width, height, x_scale, y_scale, fail)

\* the constructor with any scale arguments: they are stored as given, and
\* SDL_CreateWindow opens a window of zero width or height as one of size 1
MakeNewAny ==
    \E width \in 1..MaxDim, height \in 1..MaxDim,
       x_scale \in 0..MaxScale, y_scale \in 0..MaxScale, fail \in MakeNewFailures :
        sdl2_make_new(width, height, x_scale, y_scale, fail)

\* the renderer calls that can fail for this buffer: none when show rejects it
FailPoints(bufinfo) ==
    IF self = NoObj \/ bufinfo.null \/ SizeMismatch(self, bufinfo.len)
    THEN {0}
    ELSE 0..(bufinfo.len + 1)

Show ==
    \E bufinfo \in Buffers : \E failAt \in FailPoints(bufinfo) :
        sdl2_show(bufinfo, failAt)

\* show as the main loop calls it once per tick: a frame of the right size or
\* one byte short, all renderer calls succeeding or the first one failing
FrameBuffers ==
    IF self = NoObj THEN {}
    ELSE {BufInfo(self.width * self.height * 2, 0),
          BufInfo(self.width * self.height * 2 - 1, 0)}

ShowFrame ==
    \E bufinfo \in FrameBuffers :
        \E failAt \in {0, 1} \cup (IF inited THEN {} ELSE {-1}) :
            sdl2_show(bufinfo, failAt)

Host == \E event \in HostEvents : HostEvent(event)

Poll == sdl2_poll_event

\* the whole module in a host loop: construct, then show and poll_event in
\* any order while the host queues events
Next == MakeNew \/ ShowFrame \/ Host \/ Poll

Spec == Init /\ [][Next]_vars

\* the blit engine on its own: construct, then show with any buffer and any
\* renderer call failing
NextShow == MakeNew \/ Show

SpecShow == Init /\ [][NextShow]_vars

\* the process is alive: no call has killed it
Running == last.exc # "crash"

Deinit == sdl2_deinit

\* the life cycle: construct, show and poll_event, and deinit at any moment,
\* before, between and after the other calls
NextLife ==
    \/ Running /\ MakeNew
    \/ Running /\ ShowFrame
    \/ Running /\ Poll
    \/ Running /\ Deinit

SpecLife == Init /\ [][NextLife]_vars

\* the host loop on an object made with any scale arguments
NextScale ==
    \/ Running /\ MakeNewAny
    \/ Running /\ ShowFrame
    \/ Running /\ Host
    \/ Running /\ Poll

SpecScale == Init /\ [][NextScale]_vars

(***************************************************************************)
(* The pixel decoder on its own: every uint16_t value is decoded.          *)
(***************************************************************************)
InitDecode ==
    /\ self = NoObj
    /\ queue = <<>>
    /\ last = NoCall
    /\ calls = <<>>
    /\ produced = <<>>
    /\ delivered = <<>>
    /\ inited = FALSE
    /\ color \in 0..65535
    /\ rgb = NoRGB

DecodePixel ==
    /\ rgb = NoRGB
    /\ rgb' = Decode(color)
    /\ UNCHANGED <<self, queue, last, calls, produced, delivered, inited, color>>

NextDecode == DecodePixel

SpecDecode == InitDecode /\ [][NextDecode]_vars

(***************************************************************************)
(* poll_event on its own: an object has been made and the host has queued  *)
(* one event, of any kind and payload.                                     *)
(***************************************************************************)
Surfaces ==
    {[width |-> width, height |-> height, x_scale |-> x_scale, y_scale |-> y_scale,
      win |-> [w |-> width * x_scale, h |-> height * y_scale]] :
        width \in 1..MaxDim, height \in 1..MaxDim,
        x_scale \in 1..MaxScale, y_scale \in 1..MaxScale}

InitPoll ==
    /\ self \in Surfaces
    /\ \E event \in RawEvents : queue = <<event>> /\ produced = <<event>>
    /\ last = [op |-> "make_new", exc |-> "none", msg |-> "",
               val |-> mp_const_none, arg |-> NoArg, failAt |-> 0]
    /\ calls = <<>>
    /\ delivered = <<>>
    /\ inited = TRUE
    /\ color = 0
    /\ rgb = NoRGB

NextPoll == Poll

SpecPoll == InitPoll /\ [][NextPoll]_vars

(***************************************************************************)
(*                              PROPERTIES                                 *)
(***************************************************************************)

\* the last call was show and it ran to the end with no renderer call failing
FrameShown == last.op = "show" /\ last.exc = "none" /\ last.failAt = 0

PaintFns == {"SDL_RenderDrawPoint", "SDL_RenderFillRect"}

\* C1: a show whose buffer length differs from width*height*2 (shorter or
\* longer) raises ValueError and issues no renderer call at all.
C1_WrongSizeRejected ==
    (last.op = "show" /\ last.arg.len # self.width * self.height * 2)
    => (/\ last.exc = "ValueError"
        /\ \A i \in 1..Len(calls) :
              calls[i].fn \notin PaintFns
                  \cup {"SDL_SetRenderDrawColor", "SDL_RenderPresent"}
        /\ calls = <<>>)

\* C1 witness: show was called with one byte too few and raised ValueError.
C1_Witness ==
    /\ last.op = "show"
    /\ ~last.arg.null
    /\ last.arg.len = self.width * self.height * 2 - 1
    /\ last.exc = "ValueError"
    /\ calls = <<>>

\* the truncated quotient: q is a / b rounded toward zero (b > 0)
IsTruncQuot(a, b, q) ==
    /\ Abs(q) * b <= Abs(a)
    /\ Abs(a) < Abs(q) * b + b
    /\ (q > 0 => a > 0)
    /\ (q < 0 => a < 0)

\* C2: for every 16-bit value the decoder yields r = (v >> 11) * 255 / 31,
\* g = ((v >> 5) & 63) * 255 / 63, b = (v & 31) * 255 / 31, truncated, each
\* in 0..255, a channel of all ones giving 255 and of all zeros giving 0.
C2_DecodeRescales ==
    rgb # NoRGB =>
        LET r5 == color \div 2048
            g6 == (color \div 32) % 64
            b5 == color % 32
        IN /\ IsTruncQuot(r5 * 255, 31, rgb.r)
           /\ IsTruncQuot(g6 * 255, 63, rgb.g)
           /\ IsTruncQuot(b5 * 255, 31, rgb.b)
           /\ rgb.r \in 0..255 /\ rgb.g \in 0..255 /\ rgb.b \in 0..255
           /\ (r5 = 31 <=> rgb.r = 255) /\ (r5 = 0 <=> rgb.r = 0)
           /\ (g6 = 63 <=> rgb.g = 255) /\ (g6 = 0 <=> rgb.g = 0)
           /\ (b5 = 31 <=> rgb.b = 255) /\ (b5 = 0 <=> rgb.b = 0)

\* C2 witness: 0x8410 (16, 32, 16) has been decoded, each channel truncated.
C2_Witness == color = 33808 /\ rgb = [r |-> 131, g |-> 129, b |-> 131]

\* C3: a show with a buffer of the right size and no renderer failure sets
\* the colour decoded from buffer[y*width + x] with alpha 255 and then paints
\* pixel (x, y), for all width*height pixels in row-major order, and presents
\* exactly once, as the last renderer call.
C3_FramePaintedThenPresented ==
    (last.op = "show" /\ ~last.arg.null
        /\ last.arg.len = self.width * self.height * 2 /\ last.failAt = 0)
    => /\ last.exc = "none"
       /\ Len(calls) = 2 * self.width * self.height + 1
       /\ \A y \in 0..(self.height - 1) : \A x \in 0..(self.width - 1) :
            LET k == y * self.width + x
                d == Decode(last.arg.data[k + 1])
            IN /\ calls[2 * k + 1] = SetRenderDrawColor(d.r, d.g, d.b, 255)
               /\ calls[2 * k + 2].fn \in PaintFns
               /\ calls[2 * k + 2].x = x * self.x_scale
               /\ calls[2 * k + 2].y = y * self.y_scale
       /\ calls[Len(calls)] = RenderPresent
       /\ \A i \in 1..(Len(calls) - 1) : calls[i] # RenderPresent
       /\ (self.width = 2 /\ self.height = 1
             /\ self.x_scale = 1 /\ self.y_scale = 1
             /\ last.arg.data = <<63488, 31>>)
          => calls = <<SetRenderDrawColor(255, 0, 0, 255), RenderDrawPoint(0, 0),
                       SetRenderDrawColor(0, 0, 255, 255), RenderDrawPoint(1, 0),
                       RenderPresent>>

\* C3 witness: a 2x2 frame was shown in full: nine renderer calls, the third
\* pixel painted being (0, 1), the present last.
C3_Witness ==
    /\ FrameShown
    /\ self.width = 2 /\ self.height = 2
    /\ Len(calls) = 9
    /\ calls[6].x = 0 /\ calls[6].y = self.y_scale
    /\ calls[9] = RenderPresent

\* the canvas positions a paint call covers
Covers(c, px, py) ==
    IF c.fn = "SDL_RenderDrawPoint"
    THEN px = c.x /\ py = c.y
    ELSE /\ c.x <= px /\ px < c.x + c.w
         /\ c.y <= py /\ py < c.y + c.h

Paints == {i \in 1..Len(calls) : calls[i].fn \in PaintFns}

\* C4: in a completed frame (scales >= 1) pixel (x, y) is painted as the point
\* (x, y) when both scales are 1, else as the rectangle at
\* (x*x_scale, y*y_scale) of size x_scale by y_scale; the tiles are pairwise
\* disjoint and every position of the width*x_scale by height*y_scale canvas
\* lies in exactly one tile.
C4_TilesPartitionCanvas ==
    (FrameShown /\ self.x_scale >= 1 /\ self.y_scale >= 1)
    => /\ \A y \in 0..(self.height - 1) : \A x \in 0..(self.width - 1) :
            calls[2 * (y * self.width + x) + 2] =
                IF self.x_scale = 1 /\ self.y_scale = 1
                THEN RenderDrawPoint(x, y)
                ELSE RenderFillRect(x * self.x_scale, y * self.y_scale,
                                    self.x_scale, self.y_scale)
       /\ self.win = [w |-> self.width * self.x_scale,
                      h |-> self.height * self.y_scale]
       /\ \A px \in 0..(self.win.w - 1) : \A py \in 0..(self.win.h - 1) :
            Cardinality({i \in Paints : Covers(calls[i], px, py)}) = 1
       /\ \A i \in Paints : \A j \in Paints :
            i # j => \A px \in (calls[i].x)..(calls[i].x + self.x_scale - 1) :
                     \A py \in (calls[i].y)..(calls[i].y + self.y_scale - 1) :
                        ~(Covers(calls[i], px, py) /\ Covers(calls[j], px, py))

\* C4 witness: a 2x2 frame shown at scale 2 by 1 (rectangles, unequal scales).
C4_Witness ==
    /\ FrameShown
    /\ self.width = 2 /\ self.height = 2
    /\ self.x_scale = 2 /\ self.y_scale = 1
    /\ calls[8] = RenderFillRect(2, 1, 2, 1)

\* a step of poll_event: it is the last call made and the host queued nothing
PollStep == last'.op = "poll_event" /\ produced' = produced

\* C5: poll_event on an empty queue returns None at once and leaves the
\* queue and the object as they were, with no renderer call.
C5_EmptyPollReturnsNone ==
    [][(PollStep /\ queue = <<>>)
        => /\ last'.val = mp_const_none
           /\ last'.exc = "none"
           /\ queue' = <<>>
           /\ self' = self
           /\ delivered' = delivered
           /\ calls' = <<>>]_vars

\* C5 witness: poll_event has just returned None on an empty queue.
C5_Witness ==
    /\ self # NoObj
    /\ last.op = "poll_event"
    /\ last.val = mp_const_none
    /\ queue = <<>>
    /\ delivered = <<>>

\* C6: each poll_event on a non-empty queue removes exactly the head and
\* returns its tuple; so, whatever show calls come in between, the tuples
\* returned so far are those of the first events the host queued, in the
\* host's order, none skipped or repeated, the rest still queued in order.
C6_PolledInHostOrder ==
    /\ [](/\ Len(produced) = Len(delivered) + Len(queue)
          /\ queue = SubSeq(produced, Len(delivered) + 1, Len(produced))
          /\ \A i \in 1..Len(delivered) :
                /\ delivered[i] = PollRecord(self, produced[i])
                /\ delivered[i].items[1] = mp_obj_new_int(produced[i].type))
    /\ [][(PollStep /\ queue # <<>>)
            => /\ queue' = Tail(queue)
               /\ last'.arg = Head(queue)
               /\ last'.val = PollRecord(self, Head(queue))
               /\ delivered' = Append(delivered, last'.val)]_vars

\* C6 witness: two different events were queued and two polls drained them,
\* the second poll returning the second event.
C6_Witness ==
    /\ Len(produced) = 2
    /\ produced[1] # produced[2]
    /\ Len(delivered) = 2
    /\ queue = <<>>
    /\ last.op = "poll_event"
    /\ last.arg = produced[2]

\* poll_event has just returned a tuple
Polled == last.op = "poll_event" /\ last.val # mp_const_none

\* C7: a motion event yields (kind, x / x_scale, y / y_scale, xrel / x_scale,
\* yrel / y_scale, state) and a button event (kind, x / x_scale, y / y_scale,
\* button), each quotient truncated toward zero; at scale 2 by 1 the raw
\* motion (10, 10, 4, 4, mask) yields (kind, 5, 10, 2, 4, mask).
C7_PointerDividedByOwnScale ==
    Polled =>
        LET e == last.arg
            it == last.val.items
            IsQuot(a, b, o) == o.t = "int" /\ IsTruncQuot(a, b, o.v)
        IN /\ e.type = SDL_MOUSEMOTION =>
                /\ Len(it) = 6
                /\ it[1] = mp_obj_new_int(e.type)
                /\ IsQuot(e.x, self.x_scale, it[2])
                /\ IsQuot(e.y, self.y_scale, it[3])
                /\ IsQuot(e.xrel, self.x_scale, it[4])
                /\ IsQuot(e.yrel, self.y_scale, it[5])
                /\ it[6] = mp_obj_new_int(e.state)
           /\ e.type \in {SDL_MOUSEBUTTONDOWN, SDL_MOUSEBUTTONUP} =>
                /\ Len(it) = 4
                /\ it[1] = mp_obj_new_int(e.type)
                /\ IsQuot(e.x, self.x_scale, it[2])
                /\ IsQuot(e.y, self.y_scale, it[3])
                /\ it[4] = mp_obj_new_int(e.button)
           /\ (self.x_scale = 2 /\ self.y_scale = 1
                 /\ e = MouseMotionEvent(10, 10, 4, 4, 1)) =>
                it = <<mp_obj_new_int(SDL_MOUSEMOTION), mp_obj_new_int(5),
                       mp_obj_new_int(10), mp_obj_new_int(2),
                       mp_obj_new_int(4), mp_obj_new_int(1)>>

\* C7 witness: a motion with negative relative movement (-3, -5) was polled
\* at scale 2 by 2 and gave (-1, -2).
C7_Witness ==
    /\ Polled
    /\ self.x_scale = 2 /\ self.y_scale = 2
    /\ last.arg = MouseMotionEvent(7, 5, -3, -5, 1)
    /\ last.val.items[4] = mp_obj_new_int(-1)
    /\ last.val.items[5] = mp_obj_new_int(-2)

\* C8: for a wheel event (scales >= 1) fields 1 and 2 of the tuple are
\* x / x_scale and y / x_scale, and the tuple is the same whatever y_scale is.
C8_WheelDividedByXScale ==
    (Polled /\ last.arg.type = SDL_MOUSEWHEEL
        /\ self.x_scale >= 1 /\ self.y_scale >= 1)
    => /\ last.val.items[2].t = "int"
       /\ IsTruncQuot(last.arg.x, self.x_scale, last.val.items[2].v)
       /\ last.val.items[3].t = "int"
       /\ IsTruncQuot(last.arg.y, self.x_scale, last.val.items[3].v)
       /\ \A other \in 1..MaxScale :
            last.val = PollRecord([self EXCEPT !.y_scale = other], last.arg)

\* C8 witness: a wheel event scrolling -5 vertically was polled at scale
\* 1 by 2 and field 2 is -5, not -5 / 2.
C8_Witness ==
    /\ Polled
    /\ last.arg.type = SDL_MOUSEWHEEL
    /\ self.x_scale = 1 /\ self.y_scale = 2
    /\ last.arg.y = -5
    /\ last.val.items[3] = mp_obj_new_int(-5)

\* C9: for a wheel event the tuple has 8 fields and fields 4 to 7 are the
\* event's preciseX, preciseY, mouseX and mouseY, unscaled.
C9_WheelPassesPreciseAndMouse ==
    (Polled /\ last.arg.type = SDL_MOUSEWHEEL)
    => /\ Len(last.val.items) = 8
       /\ last.val.items[5] = [t |-> "float", v |-> last.arg.preciseX]
       /\ last.val.items[6] = [t |-> "float", v |-> last.arg.preciseY]
       /\ last.val.items[7] = mp_obj_new_int(last.arg.mouseX)
       /\ last.val.items[8] = mp_obj_new_int(last.arg.mouseY)

\* C10: every tuple poll_event returns has the event kind at index 0 and a
\* length fixed by the kind: 3 for key down/up, 6 for motion, 4 for button
\* down/up, 8 for wheel, 1 for quit and for every other kind.
C10_ArityByKind ==
    (last.op = "poll_event" /\ last.arg # NoArg)
    => /\ last.val.t = "tuple"
       /\ Len(last.val.items) >= 1
       /\ last.val.items[1] = mp_obj_new_int(last.arg.type)
       /\ Len(last.val.items) =
            CASE last.arg.type \in {SDL_KEYDOWN, SDL_KEYUP} -> 3
              [] last.arg.type = SDL_MOUSEMOTION -> 6
              [] last.arg.type \in {SDL_MOUSEBUTTONDOWN, SDL_MOUSEBUTTONUP} -> 4
              [] last.arg.type = SDL_MOUSEWHEEL -> 8
              [] OTHER -> 1
       /\ last.arg.type \in {SDL_QUIT, SDL_WINDOWEVENT}
            => last.val = mp_obj_new_tuple(<<mp_obj_new_int(last.arg.type)>>)

\* C10 witness: a wheel event was polled and came back as a tuple of 8.
C10_Witness ==
    /\ Polled
    /\ last.arg.type = SDL_MOUSEWHEEL
    /\ Len(last.val.items) = 8
    /\ last.val.items[1] = mp_obj_new_int(SDL_MOUSEWHEEL)

\* the last call was show and one of its colour or paint calls returned an
\* error code
RendererCallFailed ==
    /\ last.op = "show"
    /\ last.failAt \in 1..(2 * self.width * self.height)

\* C11: when a set-colour, draw-point or fill-rect call fails during show,
\* that call is the last renderer call of the show: nothing later is painted,
\* nothing is presented, RuntimeError (not ValueError) is raised, and the
\* pixels before the failing one have been painted as in a full frame.
C11_FailureStopsFrame ==
    RendererCallFailed
    => /\ last.exc = "RuntimeError"
       /\ last.exc # "ValueError"
       /\ Len(calls) = last.failAt
       /\ last.msg = calls[last.failAt].fn
       /\ last.msg \in PaintFns \cup {"SDL_SetRenderDrawColor"}
       /\ \A i \in 1..Len(calls) : calls[i] # RenderPresent
       /\ \A k \in 0..(self.width * self.height - 1) :
            LET x == k % self.width
                y == k \div self.width
                d == Decode(last.arg.data[k + 1])
            IN /\ 2 * k + 2 < last.failAt =>
                    /\ calls[2 * k + 1] = SetRenderDrawColor(d.r, d.g, d.b, 255)
                    /\ calls[2 * k + 2].fn \in PaintFns
                    /\ calls[2 * k + 2].x = x * self.x_scale
                    /\ calls[2 * k + 2].y = y * self.y_scale
               /\ 2 * k + 2 > last.failAt =>
                    \A i \in 1..Len(calls) :
                        ~(/\ calls[i].fn \in PaintFns
                          /\ calls[i].x = x * self.x_scale
                          /\ calls[i].y = y * self.y_scale
                          /\ self.x_scale >= 1 /\ self.y_scale >= 1)

\* C11 witness: in a 2x2 frame the paint call of the second pixel failed:
\* the first pixel is painted, four renderer calls were made, RuntimeError.
C11_Witness ==
    /\ RendererCallFailed
    /\ self.width = 2 /\ self.height = 2
    /\ last.failAt = 4
    /\ Len(calls) = 4
    /\ calls[2].fn \in PaintFns
    /\ last.exc = "RuntimeError"

\* C12: a show whose present step failed does not return success: it raises
\* RuntimeError.
C12_PresentFailureReported ==
    (last.op = "show" /\ last.failAt = 2 * self.width * self.height + 1)
    => last.exc = "RuntimeError"

\* C13: deinit returns None without error in every state it is called in
\* (an object open, SDL already shut down, SDL never started) and leaves SDL
\* shut down; called when SDL is already shut down it changes nothing.
C13_DeinitIdempotent ==
    /\ [](last.op = "deinit"
            => /\ last.exc = "none"
               /\ last.val = mp_const_none
               /\ ~inited
               /\ queue = <<>>
               /\ calls = <<>>)
    /\ [][(last'.op = "deinit" /\ ~inited)
            => /\ last'.exc = "none"
               /\ ~inited'
               /\ self' = self
               /\ queue' = queue
               /\ produced' = produced
               /\ delivered' = delivered]_vars

\* C13 witness: with an object made, deinit was called directly after a
\* deinit, when SDL was already shut down, and returned None.
C13_Witness ==
    /\ self # NoObj
    /\ last.op = "deinit"
    /\ last.arg.after = "deinit"
    /\ last.arg.was = FALSE
    /\ last.exc = "none"
    /\ ~inited

\* C14: every object the constructor returns has x_scale >= 1 and
\* y_scale >= 1, show and poll_event leave them as they are, and so no event
\* makes poll_event divide by zero.
C14_ScalesPositive ==
    /\ self # NoObj =>
        /\ self.x_scale >= 1
        /\ self.y_scale >= 1
        /\ \A event \in RawEvents : ~DividesByZero(self, event)
    /\ last.op \in {"show", "poll_event"} => last.exc # "crash"

====
